---- MODULE Spec2Model ----
(***************************************************************************)
(* Model of the-blade-api: the generic pagination engine                   *)
(* (internal/pagination), the user service operations that change the      *)
(* users table, and the store (PostgreSQL through gorm) they run against.  *)
(*                                                                         *)
(* Text values (column contents, search strings, filter values) are        *)
(* sequences of one-character strings, so that ILIKE, equality and         *)
(* ordering are computed.  Column names and map keys are strings.          *)
(***************************************************************************)
EXTENDS Integers, Sequences, FiniteSets, TLC

(***************************************************************************)
(* Bounds and program constants                                            *)
(***************************************************************************)
\* Width of Go's int in the model (64 on the build's platforms; scaled so
\* that the model checker can compute the products).
IntBits == 16

\* params.PageSize = 10 when the caller gives none.
DefaultPageSize == 10

\* The largest page size the binding tag of QueryParams.PageSize admits.
MaxPageSize == 100

MaxInt == 2 ^ (IntBits - 1) - 1

\* Go's wrapping signed arithmetic: the value of an int expression whose
\* mathematical value is n.
WrapInt(n) ==
    LET m == 2 ^ IntBits
        r == n % m
    IN  IF r >= 2 ^ (IntBits - 1) THEN r - m ELSE r

(***************************************************************************)
(* Text                                                                    *)
(***************************************************************************)
\* The characters of the model in byte order.
Alphabet == <<"#", "%", "@", "A", "B", "D", "N", "_", "a", "b", "d", "e", "i",
              "m", "n", "o", "r", "s", "u", "x", "y">>

Ord(ch) == CHOOSE i \in 1..Len(Alphabet) : Alphabet[i] = ch

Lower(ch) ==
    CASE ch = "A" -> "a"
      [] ch = "B" -> "b"
      [] ch = "D" -> "d"
      [] ch = "N" -> "n"
      [] OTHER -> ch

\* a < b in lexicographic byte order
RECURSIVE TextLess(_, _)
TextLess(a, b) ==
    IF b = <<>> THEN FALSE
    ELSE IF a = <<>> THEN TRUE
    ELSE IF Head(a) = Head(b) THEN TextLess(Tail(a), Tail(b))
    ELSE Ord(Head(a)) < Ord(Head(b))

\* text ILIKE pattern: % matches any run of characters, _ any one character,
\* every other character matches itself without regard to case.
RECURSIVE ILike(_, _)
ILike(text, pattern) ==
    IF pattern = <<>> THEN text = <<>>
    ELSE IF Head(pattern) = "%"
         THEN \E k \in 0..Len(text) :
                 ILike(SubSeq(text, k + 1, Len(text)), Tail(pattern))
    ELSE IF text = <<>> THEN FALSE
    ELSE /\ \/ Head(pattern) = "_"
            \/ Lower(Head(pattern)) = Lower(Head(text))
         /\ ILike(Tail(text), Tail(pattern))

(***************************************************************************)
(* The users table                                                         *)
(***************************************************************************)
Admin == <<"a", "d", "m", "i", "n">>
User  == <<"u", "s", "e", "r">>

\* A bcrypt hash, opaque.
Hash == <<"#">>

\* A value bound to a statement as a parameter (an interface{}): its dynamic
\* type and the value under it.
TextVal(t) == [kind |-> "text", text |-> t, num |-> 0, bool |-> FALSE]
BoolVal(b) == [kind |-> "bool", text |-> <<>>, num |-> 0, bool |-> b]
TimeVal(n) == [kind |-> "time", text |-> <<>>, num |-> n, bool |-> FALSE]

\* An interface{} holding nil.
Nil == [kind |-> "nil", text |-> <<>>, num |-> 0, bool |-> FALSE]

\* gorm.DeletedAt: NULL until gorm's Delete sets it.
NullTime == [Valid |-> FALSE, Time |-> 0]

\* The columns of models.Users and their kinds.
ColType == [id |-> "num", username |-> "text", email |-> "text",
            password |-> "text", name |-> "text", role |-> "text",
            created_at |-> "time", updated_at |-> "time",
            deleted_at |-> "nulltime", is_deleted |-> "bool"]

Columns == DOMAIN ColType

\* The table a deployment holds when the model starts: three users created
\* one after the other, two of them with the same role.
SeedUsers ==
    1 :> [id |-> 1, username |-> <<"a", "n", "n">>, email |-> <<"a", "@", "x">>,
          password |-> Hash, name |-> <<"A", "n", "n">>, role |-> Admin,
          created_at |-> 1, updated_at |-> 1, deleted_at |-> NullTime,
          is_deleted |-> FALSE]
 @@ 2 :> [id |-> 2, username |-> <<"b", "o", "b">>, email |-> <<"b", "@", "x">>,
          password |-> Hash, name |-> <<"B", "o", "b">>, role |-> User,
          created_at |-> 2, updated_at |-> 2, deleted_at |-> NullTime,
          is_deleted |-> FALSE]
 @@ 3 :> [id |-> 3, username |-> <<"d", "a", "n">>, email |-> <<"d", "@", "x">>,
          password |-> Hash, name |-> <<"D", "a", "n">>, role |-> User,
          created_at |-> 3, updated_at |-> 3, deleted_at |-> NullTime,
          is_deleted |-> FALSE]

\* The clock after the seed rows were written.
SeedClock == Cardinality(DOMAIN SeedUsers) + 1

\* How many writes to the table one run of the model makes.
MaxWrites == 1

(***************************************************************************)
(* PaginationConfig values                                                 *)
(***************************************************************************)
\* A Go map with no entries (also a nil map).
EmptyMap == <<>>

\* The configuration UserService.GetAllUsers passes.
UsersConfig ==
    [Model |-> "users",
     BaseCondition |-> ("is_deleted" :> BoolVal(FALSE)),
     SearchFields |-> <<"name", "email", "username">>,
     FilterFields |-> [k \in {"role", "name", "email", "username",
                               "created_at", "updated_at"} |-> k],
     DateFields |-> ("created_at" :> [Start |-> "created_at", End |-> "created_at"]
                  @@ "updated_at" :> [Start |-> "updated_at", End |-> "updated_at"]),
     SortFields |-> <<"name", "email", "role", "created_at", "updated_at">>,
     DefaultSort |-> "created_at",
     DefaultOrder |-> "DESC",
     Relations |-> <<>>, Joins |-> <<>>, SelectFields |-> <<>>,
     GroupBy |-> <<>>, Having |-> <<>>, Distinct |-> FALSE, TableAlias |-> ""]

\* A configuration over the same table whose public filter name differs from
\* its column, whose date range spans two columns, whose default sort is not among its sort fields, and which
\* leaves the search fields, the base condition and the default order empty.
ReportConfig ==
    [Model |-> "users",
     BaseCondition |-> EmptyMap,
     SearchFields |-> <<>>,
     FilterFields |-> ("kind" :> "role"),
     DateFields |-> ("active" :> [Start |-> "created_at", End |-> "updated_at"]),
     SortFields |-> <<"name">>,
     DefaultSort |-> "id",
     DefaultOrder |-> "",
     Relations |-> <<>>, Joins |-> <<>>, SelectFields |-> <<>>,
     GroupBy |-> <<>>, Having |-> <<>>, Distinct |-> FALSE, TableAlias |-> ""]

\* A configuration that names no default sort.
PlainConfig ==
    [Model |-> "users",
     BaseCondition |-> ("is_deleted" :> BoolVal(FALSE)),
     SearchFields |-> <<"name">>,
     FilterFields |-> ("role" :> "role"),
     DateFields |-> ("created_at" :> [Start |-> "created_at", End |-> "created_at"]),
     SortFields |-> <<"role">>,
     DefaultSort |-> "",
     DefaultOrder |-> "ASC",
     Relations |-> <<>>, Joins |-> <<>>, SelectFields |-> <<>>,
     GroupBy |-> <<>>, Having |-> <<>>, Distinct |-> FALSE, TableAlias |-> ""]

Configs == {UsersConfig, ReportConfig, PlainConfig}

(***************************************************************************)
(* QueryParams values a caller can pass                                    *)
(***************************************************************************)
\* A page whose offset does not fit Go's int.
BigPage == 2 ^ (IntBits - 2) + 1

Pages == {-1, 0, 1, 2, BigPage}

PageSizes == {-1, 0, 2, 4, MaxPageSize + 1}

Searches == {<<>>, <<"A", "N">>, <<"_">>}

FilterMaps == {EmptyMap,
               "role" :> TextVal(User),
               "password" :> TextVal(Hash),
               "is_deleted" :> BoolVal(TRUE),
               "kind" :> TextVal(Admin) @@ "password" :> TextVal(Hash),
               "role" :> Nil,
               "role" :> TextVal(User) @@ "name" :> TextVal(<<"B", "o", "b">>)}

SortBys == {"", "role", "password"}

\* *time.Time: <<>> is nil, <<t>> points at t.
DateMaps == {EmptyMap,
             "created_at" :> [Start |-> <<2>>, End |-> <<>>],
             "created_at" :> [Start |-> <<>>, End |-> <<2>>],
             "created_at" :> [Start |-> <<>>, End |-> <<>>],
             "active" :> [Start |-> <<2>>, End |-> <<3>>],
             "birthday" :> [Start |-> <<2>>, End |-> <<>>]}

\* The QueryParams of a request that gives no parameter.
ZeroParams ==
    [Page |-> 0, PageSize |-> 0, Search |-> <<>>, Filters |-> EmptyMap,
     SortBy |-> "", SortDesc |-> FALSE, Dates |-> EmptyMap]

\* How many of the seven parameters one request sets.
MaxFieldsSet == 2

FieldsSet(p) == {f \in DOMAIN ZeroParams : p[f] # ZeroParams[f]}

ParamSpace ==
    {p \in [Page : Pages, PageSize : PageSizes, Search : Searches,
            Filters : FilterMaps, SortBy : SortBys, SortDesc : BOOLEAN,
            Dates : DateMaps] : Cardinality(FieldsSet(p)) <= MaxFieldsSet}

(***************************************************************************)
(* The statement gorm builds, and what the store does with it              *)
(***************************************************************************)
\* buildSelectClause: a fresh statement on config.Model.
buildSelectClause(cfg) ==
    [table |-> cfg.Model, alias |-> cfg.TableAlias, select |-> cfg.SelectFields,
     distinct |-> cfg.Distinct, joins |-> <<>>, where |-> {}, group |-> <<>>,
     having |-> <<>>, order |-> <<>>, offset |-> 0, limit |-> <<>>,
     preload |-> <<>>]

buildJoinClause(q, cfg) == [q EXCEPT !.joins = q.joins \o cfg.Joins]

\* Variant: the base conditions are left out.
BaseCondsNone(cfg) == {}

\* for field, value := range config.BaseCondition
BaseConds(cfg) ==
    {[op |-> "=", cols |-> <<f>>, arg |-> cfg.BaseCondition[f]] :
        f \in DOMAIN cfg.BaseCondition}

\* Variant: the search condition is added whatever the search string and the
\* search fields are.
SearchCondsUnguarded(p, cfg) ==
    {[op |-> "ILIKE", cols |-> cfg.SearchFields,
      arg |-> TextVal(<<"%">> \o p.Search \o <<"%">>)]}

\* The search condition: one Where whose text ORs an ILIKE per search field,
\* every one bound to "%" + search + "%".
SearchConds(p, cfg) ==
    IF p.Search # <<>> /\ Len(cfg.SearchFields) > 0
    THEN {[op |-> "ILIKE", cols |-> cfg.SearchFields,
           arg |-> TextVal(<<"%">> \o p.Search \o <<"%">>)]}
    ELSE {}

\* The filter keys that reach the statement.
FilterKeys(p, cfg) ==
    {f \in DOMAIN p.Filters : f \in DOMAIN cfg.FilterFields /\ p.Filters[f] # Nil}

\* Variant: a key that config.FilterFields does not list is used as the
\* column itself.
FilterCondsUnchecked(p, cfg) ==
    {[op |-> "=",
      cols |-> <<IF f \in DOMAIN cfg.FilterFields THEN cfg.FilterFields[f] ELSE f>>,
      arg |-> p.Filters[f]] : f \in DOMAIN p.Filters}

\* Variant: the caller's key is taken for the column, whatever
\* config.FilterFields maps it to.
FilterCondsByKey(p, cfg) ==
    {[op |-> "=", cols |-> <<f>>, arg |-> p.Filters[f]] : f \in FilterKeys(p, cfg)}

FilterConds(p, cfg) ==
    {[op |-> "=", cols |-> <<cfg.FilterFields[f]>>, arg |-> p.Filters[f]] :
        f \in FilterKeys(p, cfg)}

DateKeys(p, cfg) ==
    IF Cardinality(DOMAIN cfg.DateFields) > 0 /\ Cardinality(DOMAIN p.Dates) > 0
    THEN {f \in DOMAIN p.Dates : f \in DOMAIN cfg.DateFields}
    ELSE {}

\* Variant: a range restricts only when both of its bounds are given.
DateCondsBothOrNone(p, cfg) ==
    UNION {{[op |-> ">=", cols |-> <<cfg.DateFields[f].Start>>,
             arg |-> TimeVal(p.Dates[f].Start[1])],
            [op |-> "<=", cols |-> <<cfg.DateFields[f].End>>,
             arg |-> TimeVal(p.Dates[f].End[1])]} :
           f \in {g \in DateKeys(p, cfg) :
                     p.Dates[g].Start # <<>> /\ p.Dates[g].End # <<>>}}

DateConds(p, cfg) ==
    {[op |-> ">=", cols |-> <<cfg.DateFields[f].Start>>, arg |-> TimeVal(p.Dates[f].Start[1])] :
        f \in {g \in DateKeys(p, cfg) : p.Dates[g].Start # <<>>}}
    \cup
    {[op |-> "<=", cols |-> <<cfg.DateFields[f].End>>, arg |-> TimeVal(p.Dates[f].End[1])] :
        f \in {g \in DateKeys(p, cfg) : p.Dates[g].End # <<>>}}

\* buildWhereClause: every condition is one more Where, and gorm joins the
\* Wheres of a statement with AND.
buildWhereClause(q, p, cfg) ==
    [q EXCEPT !.where = q.where \cup BaseConds(cfg) \cup SearchConds(p, cfg)
                        \cup FilterConds(p, cfg) \cup DateConds(p, cfg)]

buildGroupByClause(q, cfg) ==
    [q EXCEPT !.group = cfg.GroupBy, !.having = cfg.Having]

\* Lines 238-242 of Paginate.
BuildQuery(p, cfg) ==
    buildGroupByClause(
        buildWhereClause(buildJoinClause(buildSelectClause(cfg), cfg), p, cfg),
        cfg)

\* Whether the store can compare column col with the bound value v.
ArgFits(col, v) == col \in Columns /\ ColType[col] = v.kind

\* Whether a row satisfies one condition.
Holds(row, c) ==
    CASE c.op = "="     -> CASE c.arg.kind = "text" -> row[c.cols[1]] = c.arg.text
                             [] c.arg.kind = "bool" -> row[c.cols[1]] = c.arg.bool
                             [] OTHER -> row[c.cols[1]] = c.arg.num
      [] c.op = "ILIKE" -> \E i \in 1..Len(c.cols) :
                              ILike(row[c.cols[i]], c.arg.text)
      [] c.op = ">="    -> row[c.cols[1]] >= c.arg.num
      [] c.op = "<="    -> row[c.cols[1]] <= c.arg.num

\* The columns a statement names.
WhereColumns(q) == UNION {{c.cols[i] : i \in 1..Len(c.cols)} : c \in q.where}

OrderColumns(q) == {q.order[i].col : i \in 1..Len(q.order)}

\* The store rejects a statement that names something that is no column
\* (ORDER BY with an empty column name is a syntax error) or that compares a
\* column with a value of another type.
QueryValid(q) ==
    /\ (WhereColumns(q) \cup OrderColumns(q)) \subseteq Columns
    /\ \A c \in q.where : \A i \in 1..Len(c.cols) : ArgFits(c.cols[i], c.arg)

\* models.Users has a gorm.DeletedAt, so gorm adds deleted_at IS NULL.
Scope(table) == {table[i] : i \in {j \in DOMAIN table : ~table[j].deleted_at.Valid}}

Matching(q, table) == {r \in Scope(table) : \A c \in q.where : Holds(r, c)}

\* SELECT count(*): one row, which an OFFSET or a LIMIT 0 of the statement
\* would drop, leaving total at 0.
CountRows(q, table) ==
    IF q.offset > 0 \/ q.limit = <<0>> THEN 0
    ELSE Cardinality(Matching(q, table))

\* a sorts strictly before b on column col.
Less(col, a, b) ==
    IF ColType[col] = "text" THEN TextLess(a, b) ELSE a < b

\* Row r may precede row s under the statement's ORDER BY: rows that the
\* ordering does not tell apart come in any order.
MayPrecede(q, r, s) ==
    \A i \in 1..Len(q.order) :
        LET o == q.order[i]
        IN  IF o.dir = "DESC" THEN ~Less(o.col, r[o.col], s[o.col])
            ELSE ~Less(o.col, s[o.col], r[o.col])

\* Every order in which the store can return the matching rows.
Orderings(q, table) ==
    LET rows == Matching(q, table)
        n == Cardinality(rows)
    IN  {s \in [1..n -> rows] :
            /\ \A i, j \in 1..n : i # j => s[i] # s[j]
            /\ \A i, j \in 1..n : i < j => MayPrecede(q, s[i], s[j])}

\* OFFSET and LIMIT as gorm writes them: OFFSET only when positive, LIMIT
\* when set and not negative.
Window(s, q) ==
    LET skip == IF q.offset > 0 THEN q.offset ELSE 0
        rest == SubSeq(s, skip + 1, Len(s))
    IN  IF q.limit # <<>> /\ q.limit[1] >= 0 /\ q.limit[1] < Len(rest)
        THEN SubSeq(rest, 1, q.limit[1])
        ELSE rest

\* Every slice Find can return.
FindOutcomes(q, table) == {Window(s, q) : s \in Orderings(q, table)}

\* Variant: a handle whose chains all write to its one Statement.
OpenHandleShared == [fresh |-> FALSE, where |-> {}]

\* The *gorm.DB gorm.Open returns: every chain of calls made on it starts on
\* a new, empty Statement.
OpenHandle == [fresh |-> TRUE, where |-> {}]

\* The statement a chain on handle h builds, q being what the chain adds.
Chain(h, q) == [q EXCEPT !.where = h.where \cup q.where]

\* The handle after a chain on it has built the statement q.
Chained(h, q) == IF h.fresh THEN h ELSE [h EXCEPT !.where = q.where]

(***************************************************************************)
(* Paginator.Paginate                                                      *)
(***************************************************************************)
\* Variant: page 0 is let through.
NormPageOnlyNegative(page) == IF page < 0 THEN 1 ELSE page

\* if params.Page < 1 { params.Page = 1 }
NormPage(page) == IF page < 1 THEN 1 ELSE page

\* if params.PageSize < 1 { params.PageSize = 10 }
NormPageSize(size) == IF size < 1 THEN DefaultPageSize ELSE size

\* if params.SortBy == "" { params.SortBy = config.DefaultSort }
NormSortBy(sortBy, cfg) == IF sortBy = "" THEN cfg.DefaultSort ELSE sortBy

\* if config.DefaultOrder == "" { config.DefaultOrder = "DESC" }
NormDefaultOrder(order) == IF order = "" THEN "DESC" ELSE order

\* Paginate's copy of the parameters after the defaults are set.
Normalize(p, cfg) ==
    [p EXCEPT !.Page = NormPage(p.Page),
              !.PageSize = NormPageSize(p.PageSize),
              !.SortBy = NormSortBy(p.SortBy, cfg)]

NormalizeConfig(cfg) ==
    [cfg EXCEPT !.DefaultOrder = NormDefaultOrder(cfg.DefaultOrder)]

\* Variant: the requested sort field is used whatever it is.
ValidSortByUnchecked(sortBy, cfg) == sortBy

\* The sort field after validation against config.SortFields.
ValidSortBy(sortBy, cfg) ==
    IF \E i \in 1..Len(cfg.SortFields) : cfg.SortFields[i] = sortBy
    THEN sortBy
    ELSE cfg.DefaultSort

\* Variant: the direction is ascending whatever the flag.
SortOrderAlwaysAsc(desc) == "ASC"

SortOrder(desc) == IF desc THEN "DESC" ELSE "ASC"

\* Variant: without the descending flag the direction is config.DefaultOrder.
ApplySortDefaultOrder(q, p, cfg) ==
    IF p.SortBy # ""
    THEN [q EXCEPT !.order = q.order \o
             <<[col |-> ValidSortBy(p.SortBy, cfg),
                dir |-> IF p.SortDesc THEN "DESC" ELSE cfg.DefaultOrder]>>]
    ELSE q

\* query.Order(fmt.Sprintf("%s %s", params.SortBy, sortOrder)), inside
\* if params.SortBy != "".
ApplySort(q, p, cfg) ==
    IF p.SortBy # ""
    THEN [q EXCEPT !.order = q.order \o
             <<[col |-> ValidSortBy(p.SortBy, cfg), dir |-> SortOrder(p.SortDesc)]>>]
    ELSE q

ApplyRelations(q, cfg) ==
    IF Len(cfg.Relations) > 0 THEN [q EXCEPT !.preload = cfg.Relations] ELSE q

\* offset := (params.Page - 1) * params.PageSize
Offset(page, size) == WrapInt(WrapInt(page - 1) * size)

ApplyPaging(q, p) ==
    [q EXCEPT !.offset = Offset(p.Page, p.PageSize), !.limit = <<p.PageSize>>]

\* The statement Find runs: lines 251-280.
FetchQuery(q, p, cfg) == ApplyPaging(ApplyRelations(ApplySort(q, p, cfg), cfg), p)

\* Variant: the count runs on the statement after sort and paging.
CountQueryAfterPaging(q, p, cfg) == FetchQuery(q, p, cfg)

\* The statement Count runs: the duplicate query.Session takes of the built
\* statement, before the sort and the paging are applied.
CountQuery(q, p, cfg) == q

\* params after the sort block (lines 252-264).
SortedParams(p, cfg) ==
    IF p.SortBy # "" THEN [p EXCEPT !.SortBy = ValidSortBy(p.SortBy, cfg)] ELSE p

\* Variant: the quotient is truncated instead of rounded up.
TotalPagesTruncated(total, size) == total \div size

\* int(math.Ceil(float64(total) / float64(pageSize)))
TotalPagesOf(total, size) ==
    IF total % size = 0 THEN total \div size ELSE total \div size + 1

CountError == "failed to get total count"
FetchError == "failed to fetch data"

\* The underlying errors fmt.Errorf wraps: the store could not be reached, or
\* it rejected the statement.
StoreDown == "connection refused"
BadStatement == "syntax error"

\* A nil error.
NoError == ""

\* The error of a statement sent to the store.
StoreError(storeUp, q) ==
    IF ~storeUp THEN StoreDown
    ELSE IF ~QueryValid(q) THEN BadStatement
    ELSE NoError

\* Variant: the error Paginate returns does not wrap the store's error.
FailureNotWrapping(msg, cause) == [ok |-> FALSE, err |-> msg, cause |-> NoError]

Failure(msg, cause) == [ok |-> FALSE, err |-> msg, cause |-> cause]

Response(data, tot, p) ==
    [ok |-> TRUE, Data |-> data, Total |-> tot, Page |-> p.Page,
     PageSize |-> p.PageSize, TotalPages |-> TotalPagesOf(tot, p.PageSize)]

NoResult == [ok |-> FALSE, err |-> "", cause |-> ""]

\* Everything Paginate(p, cfg) can return when it runs alone against a table
\* that does not change and a store that answers.
PaginateOn(p, cfg, table) ==
    LET np == Normalize(p, cfg)
        nc == NormalizeConfig(cfg)
        q  == BuildQuery(np, nc)
        cq == CountQuery(q, np, nc)
        fq == FetchQuery(q, np, nc)
    IN  IF ~QueryValid(cq) THEN {Failure(CountError, BadStatement)}
        ELSE IF ~QueryValid(fq) THEN {Failure(FetchError, BadStatement)}
        ELSE {Response(data, CountRows(cq, table), SortedParams(np, nc)) :
                 data \in FindOutcomes(fq, table)}

(***************************************************************************)
(* The HTTP layer of GET /users                                            *)
(***************************************************************************)
StatusOK == 200
StatusBadRequest == 400
StatusInternalServerError == 500

CodeInvalidRequest == "INVALID_REQUEST"
CodeInternalError == "INTERNAL_ERROR"

\* The query strings of the model: page, pageSize, search, sortBy, sortDesc
\* and dates as gin maps them, and the filters[name]=text parameters.
Requests ==
    {[page |-> p.Page, pageSize |-> p.PageSize, search |-> p.Search,
      filters |-> [f \in DOMAIN p.Filters |-> p.Filters[f].text],
      sortBy |-> p.SortBy, sortDesc |-> p.SortDesc, dates |-> p.Dates] :
        p \in {x \in ParamSpace :
                 \A f \in DOMAIN x.Filters : x.Filters[f].kind = "text"}}

\* The error of c.ShouldBindQuery(qp): gin validates the binding tags of
\* QueryParams, min=1 on Page and min=1,max=100 on PageSize.
BindError(r) ==
    IF r.page < 1 THEN "Page failed on the 'min' tag"
    ELSE IF r.pageSize < 1 THEN "PageSize failed on the 'min' tag"
    ELSE IF r.pageSize > MaxPageSize THEN "PageSize failed on the 'max' tag"
    ELSE NoError

\* The QueryParams Bind leaves: the mapped fields, and Filters rebuilt from
\* the filters[name] parameters, every value a string.
Bind(r) ==
    [Page |-> r.page, PageSize |-> r.pageSize, Search |-> r.search,
     Filters |-> [f \in DOMAIN r.filters |-> TextVal(r.filters[f])],
     SortBy |-> r.sortBy, SortDesc |-> r.sortDesc, Dates |-> r.dates]

\* err.Error() of the error Paginate returns: its message, then the text of
\* the error it wraps.
ErrorText(res) == <<res.err, res.cause>>

SendError(status, message, code, details) ==
    [status |-> status,
     body |-> [Status |-> "error", Message |-> message, Code |-> code,
               Details |-> details]]

SendSuccess(status, message, data) ==
    [status |-> status,
     body |-> [Status |-> "success", Message |-> message, Data |-> data]]

\* No response written yet.
NoReply == [status |-> 0, body |-> [Status |-> ""]]

(***************************************************************************)
(* QueryParams.Bind on the query string                                    *)
(***************************************************************************)
\* Query-string keys and values are sequences of characters.
FiltersPrefix == <<"f", "i", "l", "t", "e", "r", "s", "[">>

FiltersSuffix == <<"]">>

\* The key filters[role].
KeyFiltersRole == FiltersPrefix \o <<"r", "o", "l", "e", "]">>

\* The key filters, which gin itself maps to the Filters field.
KeyFilters == <<"f", "i", "l", "t", "e", "r", "s">>

\* filters[role], filters[], filters[a][b], filters[role (not closed),
\* role] (not opened), search, and filters.
QueryKeys == {KeyFiltersRole,
              FiltersPrefix \o <<"]">>,
              FiltersPrefix \o <<"a", "]", "[", "b", "]">>,
              FiltersPrefix \o <<"r", "o", "l", "e">>,
              <<"r", "o", "l", "e", "]">>,
              <<"s", "e", "a", "r", "c", "h">>,
              KeyFilters}

\* The text {"x":"y"}, and the map it is the JSON of.
JSONText == <<"{", "x", ":", "y", "}">>
JSONMap == <<"x">> :> TextVal(<<"y">>)

\* The values of one key, in the order they come in the query string.
QueryValueLists == {<<User>>, <<Admin, User>>, <<JSONText>>}

\* url.Values: key -> values; page and pageSize are kept as numbers.
RawQueries ==
    {[page |-> pg, pageSize |-> 2, values |-> v] :
        pg \in {0, 1},
        v \in UNION {[ks -> QueryValueLists] : ks \in SUBSET QueryKeys}}

HasPrefix(s, prefix) ==
    Len(s) >= Len(prefix) /\ SubSeq(s, 1, Len(prefix)) = prefix

HasSuffix(s, suffix) ==
    Len(s) >= Len(suffix) /\ SubSeq(s, Len(s) - Len(suffix) + 1, Len(s)) = suffix

\* Variant: the closing bracket is left on the field name.
FieldOfUntrimmed(key) == SubSeq(key, 9, Len(key))

\* field := key[8 : len(key)-1]
FieldOf(key) == SubSeq(key, 9, Len(key) - 1)

\* The keys the loop of Bind takes a filter from.
BracketKeys(values) ==
    {k \in DOMAIN values :
        HasPrefix(k, FiltersPrefix) /\ HasSuffix(k, FiltersSuffix) /\ Len(values[k]) > 0}

\* The map the loop of Bind builds: field -> values[0], a string in an
\* interface{}.
BracketFilters(values) ==
    [f \in {FieldOf(k) : k \in BracketKeys(values)} |->
        TextVal(values[CHOOSE k \in BracketKeys(values) : FieldOf(k) = f][1])]

\* What c.ShouldBindQuery leaves in Filters: gin reads the value of the key
\* filters as the JSON of the map, and fails if it is not.
GenericFilters(values) ==
    IF KeyFilters \in DOMAIN values /\ values[KeyFilters][1] = JSONText
    THEN JSONMap
    ELSE EmptyMap

\* The error of c.ShouldBindQuery.
ShouldBindQueryError(u) ==
    IF KeyFilters \in DOMAIN u.values /\ u.values[KeyFilters][1] # JSONText
    THEN "invalid character"
    ELSE BindError(u)

\* Bind on the query string u: the error, or the QueryParams fields it set.
BindQuery(u) ==
    IF ShouldBindQueryError(u) # NoError
    THEN [pc |-> "failed", url |-> u, err |-> ShouldBindQueryError(u),
          generic |-> EmptyMap, Filters |-> EmptyMap]
    ELSE [pc |-> "bound", url |-> u, err |-> NoError,
          generic |-> GenericFilters(u.values),
          Filters |-> BracketFilters(u.values)]

\* A request has come in and Bind has not run yet.
Arrived(u) ==
    [pc |-> "arrived", url |-> u, err |-> NoError, generic |-> EmptyMap,
     Filters |-> EmptyMap]

NoBind == Arrived([page |-> 0, pageSize |-> 0, values |-> EmptyMap])

(***************************************************************************)
(* The Auth middleware, the user cache and the calls that write users      *)
(***************************************************************************)
StatusUnauthorized == 401
StatusCreated == 201
StatusConflict == 409

\* json.Marshal(user), the value Auth stores under user:<id>: Password and
\* DeletedAt are tagged json:"-".
Marshal(user) == [f \in Columns \ {"password", "deleted_at"} |-> user[f]]

\* json.Unmarshal(userData, &user) into a zero models.Users.
Unmarshal(data) ==
    [f \in Columns |->
        IF f \in DOMAIN data THEN data[f]
        ELSE IF f = "deleted_at" THEN NullTime
        ELSE <<>>]

\* models.RegisterResponse built from a user.
RegisterResponse(user) ==
    [ID |-> user.id, Username |-> user.username, Email |-> user.email,
     Name |-> user.name, Role |-> user.role]

\* db.First(&user, id) and db.Where("id = ?", id).First(&user): the row, if
\* gorm's soft-delete scope shows one.
First(table, id) == {r \in Scope(table) : r.id = id}

\* What jwt.ParseWithClaims makes of the access_token cookie: the error, the
\* Valid flag, which the library sets exactly when there is no error, and the
\* user id of the claims. User 4 does not exist.
Tokens ==
    {[err |-> NoError, Valid |-> TRUE, UserID |-> u] : u \in {1, 2, 4}}
    \cup {[err |-> e, Valid |-> FALSE, UserID |-> 1] :
             e \in {"signature is invalid", "token is expired", "token is malformed"}}

\* The cookies of a request: access_token absent or holding a token,
\* refresh_token present or not.
Cookies ==
    {[access |-> t, refresh |-> b] :
        t \in {<<>>} \cup {<<k>> : k \in Tokens}, b \in BOOLEAN}

AuthIds == {1, 2}

NoAuth ==
    [pc |-> "idle", mode |-> "redis", cookies |-> [access |-> <<>>, refresh |-> FALSE],
     UserID |-> 0, user |-> <<>>, status |-> 0, error |-> "", aborted |-> FALSE,
     next |-> FALSE, context |-> <<>>, late |-> FALSE, cacheAtStart |-> EmptyMap]

\* c.JSON(http.StatusUnauthorized, gin.H{"error": msg}); c.Abort(); return
Unauthorized(a, msg) ==
    [a EXCEPT !.pc = "done", !.status = StatusUnauthorized, !.error = msg,
              !.aborted = TRUE]

\* c.Set("user", userResponse); c.Next()
SetUserContext(a, user) ==
    [a EXCEPT !.pc = "done", !.user = <<user>>,
              !.context = <<RegisterResponse(user)>>, !.next = TRUE]

\* Variant: a token is taken as it comes, whatever the parser said of it.
TokenRejectionUnverified(cookies) ==
    IF cookies.access = <<>>
    THEN IF ~cookies.refresh THEN "Authentication required" ELSE "Access token expired"
    ELSE NoError

\* The checks on the cookies and the token, the same in Auth and in
\* AuthWithoutRedis: the message of the 401, or none.
TokenRejection(cookies) ==
    IF cookies.access = <<>>
    THEN IF ~cookies.refresh THEN "Authentication required" ELSE "Access token expired"
    ELSE IF cookies.access[1].err # NoError
         THEN IF cookies.access[1].err = "signature is invalid" THEN "Invalid token signature"
              ELSE IF cookies.access[1].err = "token is expired" THEN "Token has expired"
              ELSE "Invalid token"
    ELSE IF ~cookies.access[1].Valid THEN "Invalid token"
    ELSE NoError

NoMutation == [pc |-> "idle", op |-> "UpdateUser", id |-> 0, user |-> <<>>, err |-> ""]

(***************************************************************************)
(* Register and CreateUser                                                 *)
(***************************************************************************)
RegIds == {1, 2}

\* Usernames and emails of the requests: one new, one a seeded user has.
RegRequests ==
    {[username |-> u, email |-> e, name |-> <<"E", "v", "e">>, role |-> User] :
        u \in {<<"e", "v", "e">>, SeedUsers[1].username},
        e \in {<<"e", "@", "x">>, SeedUsers[2].email}}

NoRegistration ==
    [pc |-> "idle", op |-> "Register", req |-> <<>>, err |-> "", status |-> 0,
     inserted |-> FALSE]

UsernameExists == "username already exists"
EmailExists == "email already exists"

\* The error PostgreSQL answers an insert with when the unique index on
\* username or on email already holds the value.
DuplicateKey == "duplicate key value violates unique constraint"

\* The unique indexes of models.Users (gorm:"unique") cover every row of
\* the table, the soft-deleted ones too.
ViolatesUnique(table, req) ==
    \E i \in DOMAIN table :
        table[i].username = req.username \/ table[i].email = req.email

\* The id the serial primary key gives the next row.
NextID(table) == Cardinality(DOMAIN table) + 1

\* The status the handlers map the error of the service to.
RegistrationStatus(err) ==
    IF err = NoError THEN StatusCreated
    ELSE IF err \in {UsernameExists, EmailExists} THEN StatusConflict
    ELSE StatusInternalServerError

(***************************************************************************)
(* State                                                                   *)
(***************************************************************************)
VARIABLES
    handle,   \* the *gorm.DB the service and every Paginator it makes hold
    db,       \* the users table: id -> row
    now,      \* the clock the store stamps rows with
    redis,    \* the user cache: id -> cached user
    pc,       \* per Paginate call: "idle", "count", "fetch", "done", or
              \* "replied" once the handler that made it has answered
    args,     \* per call: the params and config the caller passed, and
              \* whether the caller is the handler or other code
    params,   \* per call: Paginate's own copy of params
    config,   \* per call: Paginate's own copy of config
    query,    \* per call: the gorm statement built so far
    total,    \* per call: the count
    result,   \* per call: what Paginate returned
    issued,   \* per call: the statements it sent to the store, with their errors
    reply,    \* per call: the HTTP response of the handler that made it
    ctx,      \* per call: the context of the request it serves, "live" or
              \* "cancelled"
    stable,   \* per call: no write to the table since the call began
    bind,     \* a QueryParams.Bind: its query string, its result, its position
    auth,     \* per request through the Auth middleware: its cookies, its
              \* position, the user it loaded, its answer
    mut,      \* the UpdateUser, DeleteUser or SoftDeleteUser call under way
    reg       \* per Register or CreateUser call: its request, its position,
              \* its error

vars == <<handle, db, now, redis, pc, args, params, config, query, total, result,
          issued, reply, ctx, stable, bind, auth, mut, reg>>

\* What the pagination calls and the table writes leave alone.
sideVars == <<bind, auth, mut, reg>>

callVars == <<pc, args, params, config, query, total, result, issued, reply,
              ctx>>

Calls == DOMAIN pc

NoArgs == [params |-> ZeroParams, config |-> UsersConfig, via |-> "direct"]

InitStore ==
    /\ handle = OpenHandle
    /\ db = SeedUsers
    /\ now = SeedClock
    /\ redis = EmptyMap

InitCalls(ids) ==
    /\ pc = [c \in ids |-> "idle"]
    /\ args = [c \in ids |-> NoArgs]
    /\ params = [c \in ids |-> ZeroParams]
    /\ config = [c \in ids |-> UsersConfig]
    /\ query = [c \in ids |-> buildSelectClause(UsersConfig)]
    /\ total = [c \in ids |-> 0]
    /\ result = [c \in ids |-> NoResult]
    /\ issued = [c \in ids |-> <<>>]
    /\ reply = [c \in ids |-> NoReply]
    /\ ctx = [c \in ids |-> "live"]
    /\ stable = [c \in ids |-> TRUE]

\* No Bind under way.
InitSide ==
    /\ bind = NoBind
    /\ auth = [a \in AuthIds |-> NoAuth]
    /\ mut = NoMutation
    /\ reg = [r \in RegIds |-> NoRegistration]

Init == InitStore /\ InitCalls({1}) /\ InitSide

\* Paginate(p, cfg) is entered by caller via: defaults set, statement built
\* (lines 223-242).
Enter(c, p, cfg, via) ==
    /\ args' = [args EXCEPT ![c] = [params |-> p, config |-> cfg, via |-> via]]
    /\ params' = [params EXCEPT ![c] = Normalize(p, cfg)]
    /\ config' = [config EXCEPT ![c] = NormalizeConfig(cfg)]
    /\ query' = [query EXCEPT ![c] =
                    Chain(handle, BuildQuery(Normalize(p, cfg), NormalizeConfig(cfg)))]
    /\ handle' = Chained(handle, query'[c])
    /\ pc' = [pc EXCEPT ![c] = "count"]
    /\ total' = [total EXCEPT ![c] = 0]
    /\ result' = [result EXCEPT ![c] = NoResult]
    /\ issued' = [issued EXCEPT ![c] = <<>>]
    /\ ctx' = [ctx EXCEPT ![c] = "live"]
    /\ stable' = [stable EXCEPT ![c] = TRUE]

\* Code of the repository calls Paginate with params and a config of its own.
PaginateBegin(c) ==
    /\ pc[c] = "idle"
    /\ \E p \in ParamSpace, cfg \in Configs : Enter(c, p, cfg, "direct")
    /\ UNCHANGED <<db, now, redis, reply>>
    /\ UNCHANGED sideVars

\* UserHandler.GetAllUsers receives GET /users: Bind, validate.Struct (no
\* field of QueryParams has a validate tag, so it passes), then
\* UserService.GetAllUsers, which calls Paginate with the users config.
GetAllUsers(c) ==
    /\ pc[c] = "idle"
    /\ \E r \in Requests :
          IF BindError(r) # NoError
          THEN /\ reply' = [reply EXCEPT ![c] =
                     SendError(StatusBadRequest, "Invalid query parameters",
                               CodeInvalidRequest, <<BindError(r)>>)]
               /\ args' = [args EXCEPT ![c] = [params |-> Bind(r),
                               config |-> UsersConfig, via |-> "handler"]]
               /\ pc' = [pc EXCEPT ![c] = "replied"]
               /\ stable' = [stable EXCEPT ![c] = TRUE]
               /\ UNCHANGED <<handle, params, config, query, total, result, issued,
                              ctx>>
          ELSE /\ Enter(c, Bind(r), UsersConfig, "handler")
               /\ UNCHANGED reply
    /\ UNCHANGED <<db, now, redis>>
    /\ UNCHANGED sideVars

\* Variant: the fetch is sent whatever the count returned.
AfterCountAlwaysFetch(err) == "fetch"

\* Where Paginate goes after the count: on to the sort and the fetch, or out
\* with the error.
AfterCount(err) == IF err = NoError THEN "fetch" ELSE "done"

\* countQuery.Count(&total) (lines 244-249): the store answers or fails.
PaginateCount(c) ==
    /\ pc[c] = "count"
    /\ LET q == CountQuery(query[c], params[c], config[c])
       IN  \E storeUp \in BOOLEAN :
             LET err == StoreError(storeUp, q)
             IN  /\ issued' = [issued EXCEPT ![c] =
                                  Append(@, [stmt |-> "count", err |-> err])]
                 /\ IF err = NoError
                    THEN /\ total' = [total EXCEPT ![c] = CountRows(q, db)]
                         /\ UNCHANGED result
                    ELSE /\ result' = [result EXCEPT ![c] = Failure(CountError, err)]
                         /\ UNCHANGED total
                 /\ pc' = [pc EXCEPT ![c] = AfterCount(err)]
    /\ UNCHANGED <<handle, db, now, redis, args, params, config, query, reply, ctx,
                   stable>>
    /\ UNCHANGED sideVars

\* Sort, paging, Find and the response (lines 251-301).
PaginateFetch(c) ==
    /\ pc[c] = "fetch"
    /\ LET p == SortedParams(params[c], config[c])
           q == FetchQuery(query[c], params[c], config[c])
       IN  /\ params' = [params EXCEPT ![c] = p]
           /\ query' = [query EXCEPT ![c] = q]
           /\ \E storeUp \in BOOLEAN :
                 LET err == StoreError(storeUp, q)
                 IN  /\ issued' = [issued EXCEPT ![c] =
                                      Append(@, [stmt |-> "fetch", err |-> err])]
                     /\ IF err = NoError
                        THEN \E data \in FindOutcomes(q, db) :
                               result' = [result EXCEPT ![c] =
                                             Response(data, total[c], p)]
                        ELSE result' = [result EXCEPT ![c] = Failure(FetchError, err)]
    /\ pc' = [pc EXCEPT ![c] = "done"]
    /\ UNCHANGED <<handle, db, now, redis, args, config, total, reply, ctx, stable>>
    /\ UNCHANGED sideVars

\* UserHandler.GetAllUsers has the service's result and answers: 500 with
\* err.Error() as details, or 200 with the response.
GetAllUsersReply(c) ==
    /\ pc[c] = "done"
    /\ args[c].via = "handler"
    /\ reply' = [reply EXCEPT ![c] =
          IF result[c].ok
          THEN SendSuccess(StatusOK, "Users fetched successfully", result[c])
          ELSE SendError(StatusInternalServerError, "Failed to fetch users",
                         CodeInternalError, ErrorText(result[c]))]
    /\ pc' = [pc EXCEPT ![c] = "replied"]
    /\ UNCHANGED <<handle, db, now, redis, args, params, config, query, total, result,
                   issued, ctx, stable>>
    /\ UNCHANGED sideVars

\* The handler has answered and its request is over.
GetAllUsersReturn(c) ==
    /\ pc[c] = "replied"
    /\ pc' = [pc EXCEPT ![c] = "idle"]
    /\ args' = [args EXCEPT ![c] = NoArgs]
    /\ params' = [params EXCEPT ![c] = ZeroParams]
    /\ config' = [config EXCEPT ![c] = UsersConfig]
    /\ query' = [query EXCEPT ![c] = buildSelectClause(UsersConfig)]
    /\ total' = [total EXCEPT ![c] = 0]
    /\ result' = [result EXCEPT ![c] = NoResult]
    /\ issued' = [issued EXCEPT ![c] = <<>>]
    /\ ctx' = [ctx EXCEPT ![c] = "live"]
    /\ reply' = [reply EXCEPT ![c] = NoReply]
    /\ stable' = [stable EXCEPT ![c] = TRUE]
    /\ UNCHANGED <<handle, db, now, redis>>
    /\ UNCHANGED sideVars

\* The caller has the result; the call's locals are gone.
PaginateReturn(c) ==
    /\ pc[c] = "done"
    /\ args[c].via = "direct"
    /\ pc' = [pc EXCEPT ![c] = "idle"]
    /\ args' = [args EXCEPT ![c] = NoArgs]
    /\ params' = [params EXCEPT ![c] = ZeroParams]
    /\ config' = [config EXCEPT ![c] = UsersConfig]
    /\ query' = [query EXCEPT ![c] = buildSelectClause(UsersConfig)]
    /\ total' = [total EXCEPT ![c] = 0]
    /\ result' = [result EXCEPT ![c] = NoResult]
    /\ issued' = [issued EXCEPT ![c] = <<>>]
    /\ ctx' = [ctx EXCEPT ![c] = "live"]
    /\ stable' = [stable EXCEPT ![c] = TRUE]
    /\ UNCHANGED <<handle, db, now, redis, reply>>
    /\ UNCHANGED sideVars

(***************************************************************************)
(* UserService operations that write the table                             *)
(***************************************************************************)
\* s.redisClient.Del(ctx, "user:<id>")
invalidateUserCache(cache, id) ==
    [k \in DOMAIN cache \ {id} |-> cache[k]]

\* SoftDeleteUser(id): First by id (gorm's scope hides deleted_at rows),
\* Update("is_deleted", true), which also stamps updated_at, then the cache
\* entry is dropped.
SoftDeleteUser(id) ==
    /\ id \in DOMAIN db
    /\ ~db[id].deleted_at.Valid
    /\ now < SeedClock + MaxWrites
    /\ db' = [db EXCEPT ![id].is_deleted = TRUE, ![id].updated_at = now]
    /\ now' = now + 1
    /\ redis' = invalidateUserCache(redis, id)
    /\ stable' = [c \in Calls |-> FALSE]
    /\ UNCHANGED <<handle, callVars>>
    /\ UNCHANGED sideVars

Next ==
    \/ \E c \in Calls : PaginateBegin(c)
    \/ \E c \in Calls : PaginateCount(c)
    \/ \E c \in Calls : PaginateFetch(c)
    \/ \E c \in Calls : PaginateReturn(c)
    \/ \E c \in Calls : GetAllUsers(c)
    \/ \E c \in Calls : GetAllUsersReply(c)
    \/ \E c \in Calls : GetAllUsersReturn(c)
    \/ \E id \in DOMAIN db : SoftDeleteUser(id)

Spec == Init /\ [][Next]_vars

(***************************************************************************)
(* Two requests served at the same time                                    *)
(***************************************************************************)
\* Requests that differ in their conditions, their order, their offset and
\* their limit.
PairParams ==
    {[ZeroParams EXCEPT !.Search = <<"A", "N">>],
     [ZeroParams EXCEPT !.Filters = "role" :> TextVal(User), !.Page = 2,
                        !.PageSize = 2],
     [ZeroParams EXCEPT !.SortBy = "role", !.SortDesc = TRUE, !.PageSize = 2]}

PairConfigs == {UsersConfig, ReportConfig}

InitPair == InitStore /\ InitCalls({1, 2}) /\ InitSide

PaginateBeginPair(c) ==
    /\ pc[c] = "idle"
    /\ \E p \in PairParams, cfg \in PairConfigs : Enter(c, p, cfg, "direct")
    /\ UNCHANGED <<db, now, redis, reply>>
    /\ UNCHANGED sideVars

\* The steps of the two calls in any order, the table left alone.
NextPair ==
    \/ \E c \in Calls : PaginateBeginPair(c)
    \/ \E c \in Calls : PaginateCount(c)
    \/ \E c \in Calls : PaginateFetch(c)
    \/ \E c \in Calls : PaginateReturn(c)

SpecPair == InitPair /\ [][NextPair]_vars

(***************************************************************************)
(* Requests whose context is cancelled                                     *)
(***************************************************************************)
\* The client of the request that c serves goes away, or its deadline
\* passes, while the count or the fetch of c is the next thing to finish.
\* Paginate takes no context and p.db carries none (no WithContext), so no
\* step of the call reads ctx.
Cancel(c) ==
    /\ pc[c] \in {"count", "fetch"}
    /\ ctx[c] = "live"
    /\ ctx' = [ctx EXCEPT ![c] = "cancelled"]
    /\ UNCHANGED <<handle, db, now, redis, pc, args, params, config, query, total,
                   result, issued, reply, stable>>
    /\ UNCHANGED sideVars

NextCancel ==
    \/ NextPair
    \/ \E c \in Calls : Cancel(c)

SpecCancel == InitPair /\ [][NextCancel]_vars

(***************************************************************************)
(* Bind alone, on every query string of the model                          *)
(***************************************************************************)
InitBind ==
    /\ InitStore
    /\ InitCalls({1})
    /\ \E u \in RawQueries : bind = Arrived(u)
    /\ auth = [a \in AuthIds |-> NoAuth]
    /\ mut = NoMutation
    /\ reg = [r \in RegIds |-> NoRegistration]

\* params.Bind(c)
BindRequest ==
    /\ bind.pc = "arrived"
    /\ bind' = BindQuery(bind.url)
    /\ UNCHANGED <<handle, db, now, redis, callVars, stable, auth, mut, reg>>

NextBind == BindRequest

SpecBind == InitBind /\ [][NextBind]_vars

(***************************************************************************)
(* Requests through Auth, interleaved with one call that writes a user     *)
(***************************************************************************)
\* The cookie and token checks that open Auth and AuthWithoutRedis, on the
\* cookies of a new request.
AuthEnter(a, mode) ==
    /\ \E k \in Cookies :
          LET r == [auth[a] EXCEPT !.mode = mode, !.cookies = k,
                                   !.late = (mut.pc = "returned"),
                                   !.cacheAtStart = redis]
          IN  auth' = [auth EXCEPT ![a] =
                  IF TokenRejection(k) # NoError
                  THEN Unauthorized(r, TokenRejection(k))
                  ELSE [r EXCEPT !.pc = IF mode = "redis" THEN "get" ELSE "first",
                                 !.UserID = k.access[1].UserID]]
    /\ UNCHANGED <<handle, db, now, redis, callVars, stable, bind, mut, reg>>

\* Auth(jwtSecret, db, redisClient), up to the token checks.
Auth(a) ==
    /\ auth[a].pc = "idle"
    /\ AuthEnter(a, "redis")

\* AuthWithoutRedis(jwtSecret, db), up to the token checks.
AuthWithoutRedis(a) ==
    /\ auth[a].pc = "idle"
    /\ AuthEnter(a, "db")

\* redisClient.Get(ctx, userKey): on a hit the cached user goes to the
\* context and the chain goes on.
AuthRedisGet(a) ==
    /\ auth[a].pc = "get"
    /\ auth' = [auth EXCEPT ![a] =
          IF auth[a].UserID \in DOMAIN redis
          THEN SetUserContext(auth[a], Unmarshal(redis[auth[a].UserID]))
          ELSE [auth[a] EXCEPT !.pc = "first"]]
    /\ UNCHANGED <<handle, db, now, redis, callVars, stable, bind, mut, reg>>

\* db.First(&user, claims.UserID)
AuthFirst(a) ==
    /\ auth[a].pc = "first"
    /\ LET rows == First(db, auth[a].UserID)
       IN  auth' = [auth EXCEPT ![a] =
               IF rows = {} THEN Unauthorized(auth[a], "User not found")
               ELSE IF auth[a].mode = "redis"
                    THEN [auth[a] EXCEPT !.pc = "set", !.user = <<CHOOSE r \in rows : TRUE>>]
                    ELSE SetUserContext(auth[a], CHOOSE r \in rows : TRUE)]
    /\ UNCHANGED <<handle, db, now, redis, callVars, stable, bind, mut, reg>>

\* redisClient.Set(ctx, userKey, userJSON, time.Hour), then the context.
AuthRedisSet(a) ==
    /\ auth[a].pc = "set"
    /\ redis' = (auth[a].UserID :> Marshal(auth[a].user[1])) @@ redis
    /\ auth' = [auth EXCEPT ![a] = SetUserContext(auth[a], auth[a].user[1])]
    /\ UNCHANGED <<handle, db, now, callVars, stable, bind, mut, reg>>

\* The hour of an entry is over.
RedisExpire ==
    /\ \E id \in DOMAIN redis : redis' = invalidateUserCache(redis, id)
    /\ UNCHANGED <<handle, db, now, callVars, stable, bind, auth, mut, reg>>

\* s.db.Where("id = ?", id).First(&user), the first statement of UpdateUser,
\* DeleteUser and SoftDeleteUser.
MutationFirst ==
    /\ mut.pc = "idle"
    /\ \E op \in {"UpdateUser", "DeleteUser", "SoftDeleteUser"}, id \in {1, 2} :
          mut' = IF First(db, id) = {}
                 THEN [mut EXCEPT !.pc = "returned", !.op = op, !.id = id,
                                  !.err = "record not found"]
                 ELSE [mut EXCEPT !.pc = "loaded", !.op = op, !.id = id,
                                  !.user = <<CHOOSE r \in First(db, id) : TRUE>>]
    /\ UNCHANGED <<handle, db, now, redis, callVars, stable, bind, auth, reg>>

\* A write to the row of mut.id, if the soft-delete scope still shows it.
WriteRow(row) ==
    /\ db' = IF First(db, mut.id) = {} THEN db ELSE [db EXCEPT ![mut.id] = row]
    /\ now' = now + 1
    /\ stable' = [c \in Calls |-> FALSE]
    /\ mut' = [mut EXCEPT !.pc = "written"]
    /\ UNCHANGED <<handle, redis, callVars, bind, auth, reg>>

\* s.db.Model(&user).Updates(&user): the non-zero fields of the loaded user,
\* with the role the request gives the user, and updated_at.
UpdateUserUpdates ==
    /\ mut.pc = "loaded" /\ mut.op = "UpdateUser"
    /\ \E role \in {Admin, User} :
          WriteRow([db[mut.id] EXCEPT !.username = mut.user[1].username,
                                      !.email = mut.user[1].email,
                                      !.name = mut.user[1].name,
                                      !.password = mut.user[1].password,
                                      !.role = role,
                                      !.created_at = mut.user[1].created_at,
                                      !.is_deleted = mut.user[1].is_deleted \/ @,
                                      !.updated_at = now])

\* s.db.Delete(&user): models.Users has a gorm.DeletedAt, so the row stays
\* and deleted_at is set.
DeleteUserDelete ==
    /\ mut.pc = "loaded" /\ mut.op = "DeleteUser"
    /\ WriteRow([db[mut.id] EXCEPT !.deleted_at = [Valid |-> TRUE, Time |-> now]])

\* s.db.Model(&user).Update("is_deleted", true)
SoftDeleteUserUpdate ==
    /\ mut.pc = "loaded" /\ mut.op = "SoftDeleteUser"
    /\ WriteRow([db[mut.id] EXCEPT !.is_deleted = TRUE, !.updated_at = now])

\* s.invalidateUserCache(user.ID), and the call returns.
MutationInvalidate ==
    /\ mut.pc = "written"
    /\ redis' = invalidateUserCache(redis, mut.user[1].id)
    /\ mut' = [mut EXCEPT !.pc = "returned"]
    /\ UNCHANGED <<handle, db, now, callVars, stable, bind, auth, reg>>

NextCache ==
    \/ \E a \in AuthIds : Auth(a)
    \/ \E a \in AuthIds : AuthRedisGet(a)
    \/ \E a \in AuthIds : AuthFirst(a)
    \/ \E a \in AuthIds : AuthRedisSet(a)
    \/ RedisExpire
    \/ MutationFirst
    \/ UpdateUserUpdates
    \/ DeleteUserDelete
    \/ SoftDeleteUserUpdate
    \/ MutationInvalidate

SpecCache == Init /\ [][NextCache]_vars

(***************************************************************************)
(* One request through Auth and one through AuthWithoutRedis               *)
(***************************************************************************)
\* The table as seeded, or with the second user removed by DeleteUser; the
\* cache empty, holding the first user, or holding the second user as the
\* table had it at first.
InitGate ==
    /\ handle = OpenHandle
    /\ db \in {SeedUsers,
                [SeedUsers EXCEPT ![2].deleted_at = [Valid |-> TRUE, Time |-> SeedClock]]}
    /\ now = SeedClock + 1
    /\ redis \in {EmptyMap, 1 :> Marshal(SeedUsers[1]), 2 :> Marshal(SeedUsers[2])}
    /\ InitCalls({1})
    /\ InitSide

NextGate ==
    \/ Auth(1)
    \/ AuthWithoutRedis(2)
    \/ \E a \in AuthIds : AuthRedisGet(a)
    \/ \E a \in AuthIds : AuthFirst(a)
    \/ \E a \in AuthIds : AuthRedisSet(a)

SpecGate == InitGate /\ [][NextGate]_vars

(***************************************************************************)
(* Register and CreateUser calls, interleaved                              *)
(***************************************************************************)
\* The call r returns err to its handler, which maps it to a status.
Returned(r, err) ==
    [reg[r] EXCEPT !.pc = "done", !.err = err, !.status = RegistrationStatus(err)]

\* A request has reached the service through op.
RegistrationEnter(r, op) ==
    /\ \E req \in RegRequests :
          reg' = [reg EXCEPT ![r] = [reg[r] EXCEPT !.pc = "username", !.op = op,
                                                   !.req = <<req>>]]
    /\ UNCHANGED <<handle, db, now, redis, callVars, stable, bind, auth, mut>>

\* UserService.Register
Register(r) ==
    /\ reg[r].pc = "idle"
    /\ RegistrationEnter(r, "Register")

\* UserService.CreateUser
CreateUser(r) ==
    /\ reg[r].pc = "idle"
    /\ RegistrationEnter(r, "CreateUser")

\* s.db.Where("username = ?", req.Username).First(&existingUser)
LookupUsername(r) ==
    /\ reg[r].pc = "username"
    /\ reg' = [reg EXCEPT ![r] =
          IF \E u \in Scope(db) : u.username = reg[r].req[1].username
          THEN Returned(r, UsernameExists)
          ELSE [reg[r] EXCEPT !.pc = "email"]]
    /\ UNCHANGED <<handle, db, now, redis, callVars, stable, bind, auth, mut>>

\* s.db.Where("email = ?", req.Email).First(&existingUser)
LookupEmail(r) ==
    /\ reg[r].pc = "email"
    /\ reg' = [reg EXCEPT ![r] =
          IF \E u \in Scope(db) : u.email = reg[r].req[1].email
          THEN Returned(r, EmailExists)
          ELSE [reg[r] EXCEPT !.pc = "create"]]
    /\ UNCHANGED <<handle, db, now, redis, callVars, stable, bind, auth, mut>>

\* The row s.db.Create(&user) inserts for the request of r.
NewUser(r) ==
    [id |-> NextID(db), username |-> reg[r].req[1].username,
     email |-> reg[r].req[1].email, password |-> Hash,
     name |-> reg[r].req[1].name,
     role |-> IF reg[r].op = "Register" THEN User ELSE reg[r].req[1].role,
     created_at |-> now, updated_at |-> now, deleted_at |-> NullTime,
     is_deleted |-> FALSE]

\* s.db.Create(&user): the insert, which the unique indexes may refuse.
Create(r) ==
    /\ reg[r].pc = "create"
    /\ IF ViolatesUnique(db, reg[r].req[1])
       THEN /\ reg' = [reg EXCEPT ![r] = Returned(r, DuplicateKey)]
            /\ UNCHANGED <<db, now, stable>>
       ELSE /\ db' = (NextID(db) :> NewUser(r)) @@ db
            /\ now' = now + 1
            /\ stable' = [c \in Calls |-> FALSE]
            /\ reg' = [reg EXCEPT ![r] = [Returned(r, NoError) EXCEPT !.inserted = TRUE]]
    /\ UNCHANGED <<handle, redis, callVars, bind, auth, mut>>

NextReg ==
    \/ \E r \in RegIds : Register(r)
    \/ \E r \in RegIds : CreateUser(r)
    \/ \E r \in RegIds : LookupUsername(r)
    \/ \E r \in RegIds : LookupEmail(r)
    \/ \E r \in RegIds : Create(r)

SpecReg == Init /\ [][NextReg]_vars

(***************************************************************************)
(* Properties                                                              *)
(***************************************************************************)
Raw(c) == args[c].params

Cfg(c) == args[c].config

\* Paginate has been entered for c.
Entered(c) == pc[c] \in {"count", "fetch", "done"}

\* The call has returned a response (not an error).
Succeeded(c) == pc[c] = "done" /\ result[c].ok

\* The call has returned and the store answered both of its queries, against
\* a table that no write has touched since the call began.
Settled(c) ==
    /\ pc[c] = "done"
    /\ stable[c]
    /\ (result[c].ok \/ result[c].cause # StoreDown)

\* C1: every response uses and reports a page size in 1..100: a requested
\* page size above 100 is clamped to 100, one of 0 or less becomes 10, and the
\* fetch never asks for or returns more than 100 rows.
C1_PageSizeClamped ==
    \A c \in Calls :
        Succeeded(c) =>
            /\ result[c].PageSize \in 1..MaxPageSize
            /\ Raw(c).PageSize > MaxPageSize => result[c].PageSize = MaxPageSize
            /\ Raw(c).PageSize <= 0 => result[c].PageSize = DefaultPageSize
            /\ query[c].limit = <<result[c].PageSize>>
            /\ Len(result[c].Data) <= MaxPageSize

\* C2: a call with page 0 or a negative page returns what the same call
\* with page 1 returns: it reports Page = 1, its response is one the page-1
\* call can give, and the two calls have the same possible responses.
C2_NonPositivePageIsPageOne ==
    \A c \in Calls :
        (Settled(c) /\ Raw(c).Page < 1) =>
            LET one == [Raw(c) EXCEPT !.Page = 1]
            IN  /\ result[c] \in PaginateOn(one, Cfg(c), db)
                /\ PaginateOn(Raw(c), Cfg(c), db) = PaginateOn(one, Cfg(c), db)
                /\ result[c].ok => result[c].Page = 1

C2_Witness ==
    \E c \in Calls :
        /\ Settled(c) /\ result[c].ok
        /\ Raw(c).Page < 0
        /\ Len(result[c].Data) > 0

\* C3: in every response TotalPages is the least n with n * PageSize >= Total
\* (the ceiling of Total / PageSize), PageSize being the normalized size, which
\* is never 0; TotalPages is 0 when Total is 0.
C3_TotalPagesIsCeiling ==
    \A c \in Calls :
        Succeeded(c) =>
            LET s == result[c].PageSize
                t == result[c].Total
                n == result[c].TotalPages
            IN  /\ s = NormPageSize(Raw(c).PageSize)
                /\ s >= 1
                /\ n >= 0
                /\ n * s >= t
                /\ (n - 1) * s < t
                /\ t = 0 => n = 0

C3_Witness ==
    \E c \in Calls :
        /\ Succeeded(c)
        /\ result[c].Total = 3
        /\ result[c].PageSize = 2
        /\ result[c].TotalPages = 2

\* The elements of a sequence.
Range(seq) == {seq[i] : i \in 1..Len(seq)}

\* The caller's filters without the entries config.FilterFields does not list.
ListedFilters(p, cfg) ==
    [p EXCEPT !.Filters =
        [f \in DOMAIN p.Filters \cap DOMAIN cfg.FilterFields |-> p.Filters[f]]]

UnlistedKeys(p, cfg) == DOMAIN p.Filters \ DOMAIN cfg.FilterFields

\* C4: filter entries whose key config.FilterFields does not list change
\* nothing: the call adds no condition for them, and it has the same possible
\* responses (rows, order, Total, or error) as the call without them.
C4_UnlistedFiltersIgnored ==
    \A c \in Calls :
        /\ Entered(c) =>
              query[c].where =
                  BuildQuery(Normalize(ListedFilters(Raw(c), Cfg(c)), Cfg(c)),
                             NormalizeConfig(Cfg(c))).where
        /\ Settled(c) =>
              /\ result[c] \in PaginateOn(ListedFilters(Raw(c), Cfg(c)), Cfg(c), db)
              /\ PaginateOn(Raw(c), Cfg(c), db) =
                     PaginateOn(ListedFilters(Raw(c), Cfg(c)), Cfg(c), db)

C4_Witness ==
    \E c \in Calls :
        /\ Settled(c) /\ result[c].ok
        /\ "password" \in UnlistedKeys(Raw(c), Cfg(c))
        /\ Len(result[c].Data) > 1

\* The columns the configuration names for conditions, and for ordering.
TrustedWhereColumns(cfg) ==
    DOMAIN cfg.BaseCondition \cup Range(cfg.SearchFields)
    \cup {cfg.FilterFields[f] : f \in DOMAIN cfg.FilterFields}
    \cup {cfg.DateFields[f].Start : f \in DOMAIN cfg.DateFields}
    \cup {cfg.DateFields[f].End : f \in DOMAIN cfg.DateFields}

TrustedOrderColumns(cfg) == Range(cfg.SortFields) \cup {cfg.DefaultSort}

\* The values a call may bind: the configuration's base values and the
\* caller's search text (between % signs), filter values and date bounds.
BoundValues(p, cfg) ==
    {cfg.BaseCondition[f] : f \in DOMAIN cfg.BaseCondition}
    \cup {TextVal(<<"%">> \o p.Search \o <<"%">>)}
    \cup {p.Filters[f] : f \in DOMAIN p.Filters}
    \cup UNION {{TimeVal(p.Dates[f].Start[i]) : i \in 1..Len(p.Dates[f].Start)}
                  \cup {TimeVal(p.Dates[f].End[i]) : i \in 1..Len(p.Dates[f].End)} :
                f \in DOMAIN p.Dates}

\* C5: every column a statement names in WHERE or ORDER BY is one the
\* configuration names; what the caller supplies (filter keys, date keys,
\* sortBy) never becomes a column, and the caller's values are only bound.
C5_ColumnsFromConfig ==
    \A c \in Calls :
        Entered(c) =>
            /\ WhereColumns(query[c]) \subseteq TrustedWhereColumns(Cfg(c))
            /\ OrderColumns(query[c]) \subseteq TrustedOrderColumns(Cfg(c))
            /\ \A w \in query[c].where : w.arg \in BoundValues(Raw(c), Cfg(c))
            /\ \A i \in 1..Len(query[c].order) : query[c].order[i].dir \in {"ASC", "DESC"}

C5_Witness ==
    \E c \in Calls :
        /\ Succeeded(c)
        /\ Raw(c).SortBy = "password"
        /\ "password" \in UnlistedKeys(Raw(c), Cfg(c))
        /\ OrderColumns(query[c]) = {Cfg(c).DefaultSort}

\* Whether a row satisfies every base condition of a configuration.
BaseHolds(row, cfg) ==
    \A f \in DOMAIN cfg.BaseCondition :
        Holds(row, [op |-> "=", cols |-> <<f>>, arg |-> cfg.BaseCondition[f]])

\* C6: whatever the caller passes, every row a response carries satisfies
\* every base condition of the configuration, and Total counts only such rows;
\* with the users configuration no row with is_deleted = true is returned or
\* counted, also after SoftDeleteUser.
C6_BaseConditionsAlwaysApply ==
    \A c \in Calls :
        /\ Succeeded(c) =>
              \A i \in 1..Len(result[c].Data) :
                  /\ BaseHolds(result[c].Data[i], Cfg(c))
                  /\ Cfg(c) = UsersConfig => ~result[c].Data[i].is_deleted
        /\ (pc[c] = "fetch" /\ stable[c]) =>
              total[c] = Cardinality({r \in Matching(query[c], db) :
                                         BaseHolds(r, Cfg(c))})
        /\ (pc[c] = "fetch" /\ stable[c]) =>
              total[c] <= Cardinality({r \in Scope(db) : BaseHolds(r, Cfg(c))})

C6_Witness ==
    \E c \in Calls :
        /\ Settled(c) /\ result[c].ok
        /\ Cfg(c) = UsersConfig
        /\ "is_deleted" \in DOMAIN Raw(c).Filters
        /\ \E id \in DOMAIN db : db[id].is_deleted
        /\ result[c].Total = 2
        /\ Len(result[c].Data) = 2

Min(a, b) == IF a < b THEN a ELSE b

Max(a, b) == IF a > b THEN a ELSE b

\* What the call of c can return for page k of its request: its own response
\* for its own page.
PageOutcomes(c, k) ==
    IF k = result[c].Page THEN {result[c]}
    ELSE PaginateOn([Raw(c) EXCEPT !.Page = k], Cfg(c), db)

\* Every way of fetching pages 1..TotalPages of the request of c.
Walks(c) ==
    LET pages == 1..result[c].TotalPages
    IN  {w \in [pages -> UNION {PageOutcomes(c, k) : k \in pages}] :
            \A k \in pages : w[k] \in PageOutcomes(c, k)}

\* C7: on an unchanging table a page holds at most Total rows, and the pages
\* 1..TotalPages of one request, fetched in the order of a sort field, hold
\* every matching row exactly once, whatever the sort field.
C7_PagesPartitionMatches ==
    \A c \in Calls :
        (Settled(c) /\ result[c].ok) =>
            /\ Len(result[c].Data) <= result[c].Total
            /\ Len(query[c].order) > 0 => \A w \in Walks(c) :
                  LET pages == DOMAIN w
                      slots == {<<k, i>> \in pages \X (1..result[c].PageSize) :
                                   i <= Len(w[k].Data)}
                  IN  /\ Cardinality(slots) = result[c].Total
                      /\ \A a, b \in slots :
                            a # b => w[a[1]].Data[a[2]] # w[b[1]].Data[b[2]]
                      /\ {w[a[1]].Data[a[2]] : a \in slots} =
                            Matching(query[c], db)

\* C8: on an unchanging table page p of size s holds exactly
\* min(s, max(0, Total - (p-1)*s)) rows, fetched at offset (p-1)*s; a page
\* past the last one holds no row.
C8_PageLength ==
    \A c \in Calls :
        (Settled(c) /\ result[c].ok) =>
            LET p == result[c].Page
                s == result[c].PageSize
                t == result[c].Total
            IN  /\ query[c].offset = (p - 1) * s
                /\ Len(result[c].Data) = Min(s, Max(0, t - (p - 1) * s))
                /\ p > result[c].TotalPages => Len(result[c].Data) = 0

\* The Total of Paginate(p, cfg) on a table.
TotalOn(p, cfg, table) ==
    LET np == Normalize(p, cfg)
        nc == NormalizeConfig(cfg)
        q  == BuildQuery(np, nc)
    IN  CountRows(CountQuery(q, np, nc), table)

\* The statement the count of Paginate(p, cfg) runs.
CountStatement(p, cfg) ==
    LET np == Normalize(p, cfg)
        nc == NormalizeConfig(cfg)
    IN  CountQuery(BuildQuery(np, nc), np, nc)

\* The params without page, page size and sort: all calls that differ only
\* in these have the same filtering inputs.
FilteringInputs(p) ==
    [p EXCEPT !.Page = ZeroParams.Page, !.PageSize = ZeroParams.PageSize,
              !.SortBy = ZeroParams.SortBy, !.SortDesc = ZeroParams.SortDesc]

\* C9: the count statement carries the conditions, joins and grouping of the
\* fetch and no ORDER BY, OFFSET or LIMIT; Total is the number of rows that
\* match the conditions.  The count statement and Total of a call are those
\* of the call with the same filtering inputs and no page, page size or sort,
\* so they are the same for all calls that differ only in these.
C9_TotalIgnoresPagingAndSort ==
    \A c \in Calls :
        /\ pc[c] = "count" =>
              LET cq == CountQuery(query[c], params[c], config[c])
                  fq == FetchQuery(query[c], params[c], config[c])
              IN  /\ cq.order = <<>> /\ cq.offset = 0 /\ cq.limit = <<>>
                  /\ cq.where = fq.where /\ cq.joins = fq.joins
                  /\ cq.group = fq.group /\ cq.having = fq.having
        /\ (Settled(c) /\ result[c].ok) =>
              /\ result[c].Total = Cardinality(Matching(query[c], db))
              /\ result[c].Total = TotalOn(FilteringInputs(Raw(c)), Cfg(c), db)
              /\ CountStatement(Raw(c), Cfg(c)) =
                    CountStatement(FilteringInputs(Raw(c)), Cfg(c))

C9_Witness ==
    \E c \in Calls :
        /\ Settled(c) /\ result[c].ok
        /\ Raw(c).Filters = ("role" :> TextVal(User))
        /\ Raw(c).Page = 2
        /\ result[c].Total = 2
        /\ Len(result[c].Data) = 0

\* C10: a sortBy that config.SortFields does not list is no error: the fetch
\* is ordered by config.DefaultSort and the call has the same possible
\* responses as the call with sortBy set to config.DefaultSort.
C10_UnknownSortFallsBack ==
    \A c \in Calls :
        (Settled(c) /\ Raw(c).SortBy \notin Range(Cfg(c).SortFields)) =>
            /\ result[c].ok
            /\ Cfg(c).DefaultSort # "" => OrderColumns(query[c]) = {Cfg(c).DefaultSort}
            /\ PaginateOn(Raw(c), Cfg(c), db) =
                  PaginateOn([Raw(c) EXCEPT !.SortBy = Cfg(c).DefaultSort], Cfg(c), db)

\* The caller's filter entries whose key config.FilterFields lists.
ListedKeys(p, cfg) == DOMAIN p.Filters \cap DOMAIN cfg.FilterFields

\* Whether a row's column equals a filter value; no column equals nil.
FilterHolds(row, col, v) ==
    IF v = Nil \/ ~ArgFits(col, v) THEN FALSE
    ELSE Holds(row, [op |-> "=", cols |-> <<col>>, arg |-> v])

\* The statement the call would build had the caller passed no filter.
Unfiltered(c) ==
    BuildQuery(Normalize([Raw(c) EXCEPT !.Filters = EmptyMap], Cfg(c)),
               NormalizeConfig(Cfg(c)))

\* The rows the count and the fetch of c are restricted to when every filter
\* entry of keys is applied as an equality on its mapped column.
FilteredRows(c, keys) ==
    {r \in Matching(Unfiltered(c), db) :
        \A f \in keys : FilterHolds(r, Cfg(c).FilterFields[f], Raw(c).Filters[f])}

\* C11 as stated: for every filter entry whose key config.FilterFields lists,
\* the count and the fetch are restricted to the rows whose mapped column
\* equals the supplied value, all entries together (AND).
C11_ListedFiltersRestrict ==
    \A c \in Calls :
        /\ (pc[c] = "fetch" /\ stable[c]) =>
              total[c] = Cardinality(FilteredRows(c, ListedKeys(Raw(c), Cfg(c))))
        /\ Succeeded(c) =>
              \A i \in 1..Len(result[c].Data) : \A f \in ListedKeys(Raw(c), Cfg(c)) :
                  FilterHolds(result[c].Data[i], Cfg(c).FilterFields[f],
                              Raw(c).Filters[f])

\* C11, amended: the same for every listed filter entry whose value is not
\* nil; a listed entry whose value is nil adds no condition.  The count and
\* the fetch statement carry one equality per such entry on the mapped column.
C11_ListedNonNilFiltersRestrict ==
    \A c \in Calls :
        LET keys == {f \in ListedKeys(Raw(c), Cfg(c)) : Raw(c).Filters[f] # Nil}
            conds == {[op |-> "=", cols |-> <<Cfg(c).FilterFields[f]>>,
                       arg |-> Raw(c).Filters[f]] : f \in keys}
        IN  /\ Entered(c) =>
                  /\ query[c].where = Unfiltered(c).where \cup conds
                  /\ CountQuery(query[c], params[c], config[c]).where = query[c].where
            /\ (pc[c] = "fetch" /\ stable[c]) =>
                  total[c] = Cardinality(FilteredRows(c, keys))
            /\ Succeeded(c) =>
                  \A i \in 1..Len(result[c].Data) : \A f \in keys :
                      FilterHolds(result[c].Data[i], Cfg(c).FilterFields[f],
                                  Raw(c).Filters[f])
            /\ (Settled(c) /\ result[c].ok) =>
                  Range(result[c].Data) \subseteq FilteredRows(c, keys)

C11_Witness ==
    \E c \in Calls :
        /\ Settled(c) /\ result[c].ok
        /\ Cardinality(ListedKeys(Raw(c), Cfg(c))) = 2
        /\ Cardinality(Matching(Unfiltered(c), db)) = 3
        /\ result[c].Total = 1
        /\ Len(result[c].Data) = 1

\* Whether text contains part, without regard to case.
Contains(text, part) ==
    \E k \in 0..(Len(text) - Len(part)) :
        \A i \in 1..Len(part) : Lower(text[k + i]) = Lower(part[i])

\* The statement the call would build had the caller passed no search.
Unsearched(c) ==
    BuildQuery(Normalize([Raw(c) EXCEPT !.Search = <<>>], Cfg(c)),
               NormalizeConfig(Cfg(c)))

\* Whether the call of c searches: a search string and search fields.
Searching(c) == Raw(c).Search # <<>> /\ Len(Cfg(c).SearchFields) > 0

\* The rows of the call without the search of which one search field contains
\* the search string.
SearchedRows(c) ==
    {r \in Matching(Unsearched(c), db) :
        \E f \in Range(Cfg(c).SearchFields) : Contains(r[f], Raw(c).Search)}

\* C12: with a search string and search fields, the rows counted and returned
\* are the rows that satisfy the base, filter and date conditions and of which
\* at least one search field contains the search string, whatever the case.
C12_SearchContainsAndConjoins ==
    \A c \in Calls :
        Searching(c) =>
            /\ (pc[c] = "fetch" /\ stable[c]) => total[c] = Cardinality(SearchedRows(c))
            /\ (Settled(c) /\ result[c].ok) =>
                  /\ Matching(query[c], db) = SearchedRows(c)
                  /\ Range(result[c].Data) \subseteq SearchedRows(c)

\* C13: a call with an empty search string, and a call with a search string
\* under a configuration without search fields, add no search condition and
\* have the possible responses (rows, order, Total, TotalPages) of the call
\* without the search.
C13_NoSearchWithoutStringOrFields ==
    \A c \in Calls :
        ~Searching(c) =>
            /\ Entered(c) =>
                  /\ \A w \in query[c].where : w.op # "ILIKE"
                  /\ query[c].where = Unsearched(c).where
            /\ Settled(c) =>
                  LET none == [Raw(c) EXCEPT !.Search = <<>>]
                  IN  /\ result[c] \in PaginateOn(none, Cfg(c), db)
                      /\ PaginateOn(Raw(c), Cfg(c), db) = PaginateOn(none, Cfg(c), db)

C13_Witness ==
    \E c \in Calls :
        /\ Settled(c) /\ result[c].ok
        /\ Raw(c).Search = <<"A", "N">>
        /\ Len(Cfg(c).SearchFields) = 0
        /\ result[c].Total = 3
        /\ Len(result[c].Data) = 3

\* The caller's date ranges whose key config.DateFields lists.
ListedDates(p, cfg) == DOMAIN p.Dates \cap DOMAIN cfg.DateFields

\* The statement the call would build had the caller passed no date range.
Undated(c) ==
    BuildQuery(Normalize([Raw(c) EXCEPT !.Dates = EmptyMap], Cfg(c)),
               NormalizeConfig(Cfg(c)))

\* Whether a row lies in a range: at or after start if start is given, at or
\* before end if end is given.
InRange(row, field, range) ==
    /\ range.Start # <<>> => row[field.Start] >= range.Start[1]
    /\ range.End # <<>> => row[field.End] <= range.End[1]

\* The rows of the call without date ranges that lie in every listed range.
DatedRows(c) ==
    {r \in Matching(Undated(c), db) :
        \A f \in ListedDates(Raw(c), Cfg(c)) :
            InRange(r, Cfg(c).DateFields[f], Raw(c).Dates[f])}

\* C14: for every date range whose key config.DateFields lists the count and
\* the fetch keep the rows with start column >= start if start is given and
\* end column <= end if end is given, each bound on its own; a range without
\* bounds adds no condition, and a range whose key is not listed is dropped:
\* no error, and the possible responses of the call without it.
C14_DateRangesRestrict ==
    \A c \in Calls :
        /\ Entered(c) =>
              LET keys == ListedDates(Raw(c), Cfg(c))
                  n == Cardinality({f \in keys : Raw(c).Dates[f].Start # <<>>})
                       + Cardinality({f \in keys : Raw(c).Dates[f].End # <<>>})
              IN  /\ Undated(c).where \subseteq query[c].where
                  /\ Cardinality(query[c].where \ Undated(c).where) = n
        /\ (pc[c] = "fetch" /\ stable[c]) => total[c] = Cardinality(DatedRows(c))
        /\ (Settled(c) /\ result[c].ok) =>
              /\ Matching(query[c], db) = DatedRows(c)
              /\ Range(result[c].Data) \subseteq DatedRows(c)
        /\ Settled(c) =>
              LET listed == [Raw(c) EXCEPT !.Dates =
                                [f \in ListedDates(Raw(c), Cfg(c)) |-> Raw(c).Dates[f]]]
              IN  /\ result[c] \in PaginateOn(listed, Cfg(c), db)
                  /\ PaginateOn(Raw(c), Cfg(c), db) = PaginateOn(listed, Cfg(c), db)

\* A range with only start given, over rows on both sides of start.
C14_Witness ==
    \E c \in Calls :
        /\ Settled(c) /\ result[c].ok
        /\ \E f \in ListedDates(Raw(c), Cfg(c)) :
              Raw(c).Dates[f].Start # <<>> /\ Raw(c).Dates[f].End = <<>>
        /\ Cardinality(Matching(Undated(c), db)) = 3
        /\ result[c].Total = 2
        /\ Len(result[c].Data) = 2

\* The errors of the statements a call has sent.
Errors(c) == {issued[c][i].err : i \in 1..Len(issued[c])} \ {NoError}

\* C15: Paginate returns either a response with rows and Total or no response
\* and an error, never a part of a response.  It returns the error when the
\* count failed, or the count succeeded and the fetch failed, the error wraps
\* the store's error, and it returns an error in no other case.
C15_FailsAtomically ==
    \A c \in Calls :
        /\ pc[c] \in {"count", "fetch"} => result[c] = NoResult
        /\ pc[c] = "done" =>
              LET last == issued[c][Len(issued[c])]
              IN  /\ result[c].ok <=> Errors(c) = {}
                  /\ result[c].ok =>
                        /\ DOMAIN result[c] =
                              {"ok", "Data", "Total", "Page", "PageSize", "TotalPages"}
                        /\ result[c].Total = total[c]
                        /\ [i \in 1..Len(issued[c]) |-> issued[c][i].stmt] =
                              <<"count", "fetch">>
                  /\ ~result[c].ok =>
                        /\ DOMAIN result[c] = {"ok", "err", "cause"}
                        /\ last.err # NoError
                        /\ result[c].cause = last.err
                        /\ result[c].err =
                              (IF last.stmt = "count" THEN CountError ELSE FetchError)
                        /\ \A i \in 1..(Len(issued[c]) - 1) : issued[c][i].err = NoError

\* The count succeeded and the fetch failed.
C15_Witness ==
    \E c \in Calls :
        /\ pc[c] = "done"
        /\ ~result[c].ok
        /\ result[c].err = FetchError
        /\ result[c].cause = StoreDown
        /\ total[c] = 3

\* The handler of GET /users has answered the request of c.
Replied(c) == pc[c] = "replied" /\ args[c].via = "handler"

\* C16: a request to GET /users with unknown filter keys, an unknown sort
\* field, or a page or page size out of range is not answered with an error:
\* unless the store fails, the answer is 200 with the page Paginate computed
\* from the normalized parameters.
C16_PolicyRejectionsAreNotErrors ==
    \A c \in Calls :
        (Replied(c) /\ Errors(c) = {}) =>
            /\ reply[c].status = StatusOK
            /\ result[c].ok
            /\ reply[c].body.Status = "success"
            /\ reply[c].body.Data = result[c]

\* C17: when the count or the fetch of a request to GET /users fails in the
\* store, the answer has a 5xx status and its body does not hold the text of
\* the store's error.
C17_StoreErrorNotExposed ==
    \A c \in Calls :
        (Replied(c) /\ Errors(c) # {}) =>
            /\ reply[c].status \in 500..599
            /\ reply[c].body.Status = "error"
            /\ \A e \in Errors(c) : e \notin Range(reply[c].body.Details)

\* A step of some Paginate call.
PaginateStep == \E c \in Calls : pc[c] \in {"count", "fetch"} /\ pc'[c] # pc[c]

\* A Paginate step writes nothing to the store and leaves what its caller
\* passed (the params, the config and its maps) as it was.
PaginateFrame ==
    PaginateStep =>
        /\ db' = db /\ now' = now /\ redis' = redis
        /\ args' = args

\* C18: Paginate only reads: no step of a call writes to the store or changes
\* the caller's QueryParams or PaginationConfig, the statements it sends are
\* the count and the fetch, and the same call repeated on an unchanged table
\* returns the same response, so the response a call returned is the only one
\* that call can return.
C18_ReadOnlyIdempotent ==
    /\ [][PaginateFrame]_vars
    /\ [](\A c \in Calls :
            /\ \A i \in 1..Len(issued[c]) : issued[c][i].stmt \in {"count", "fetch"}
            /\ (Settled(c) /\ result[c].ok /\ Len(query[c].order) > 0) =>
                  PaginateOn(Raw(c), Cfg(c), db) = {result[c]})

\* The statement Paginate builds from what the caller of c passed, and
\* nothing else.
OwnQuery(c) == BuildQuery(Normalize(Raw(c), Cfg(c)), NormalizeConfig(Cfg(c)))

\* C19: in every interleaving of the steps of two calls on one Paginator
\* handle, over an unchanging table, the statements of a call are built from
\* its own params and config only (no condition, order, offset or limit of
\* the other call), and what it returns is a response it can return alone.
C19_CallsIndependent ==
    \A c \in Calls :
        /\ pc[c] \in {"count", "fetch"} =>
              /\ query[c] = OwnQuery(c)
              /\ params[c] = Normalize(Raw(c), Cfg(c))
              /\ config[c] = NormalizeConfig(Cfg(c))
        /\ (pc[c] = "done" /\ Len(issued[c]) > 1) =>
              query[c] = FetchQuery(OwnQuery(c), Normalize(Raw(c), Cfg(c)),
                                    NormalizeConfig(Cfg(c)))
        /\ (pc[c] = "fetch" /\ stable[c]) =>
              total[c] = TotalOn(Raw(c), Cfg(c), db)
        /\ Settled(c) => result[c] \in PaginateOn(Raw(c), Cfg(c), db)

\* One call has returned its page while another, with other conditions, is
\* between its count and its fetch.
C19_Witness ==
    \E c, d \in Calls :
        /\ c # d
        /\ Settled(c) /\ result[c].ok
        /\ pc[d] = "fetch"
        /\ Raw(c) # Raw(d)
        /\ query[c].where # query[d].where
        /\ Len(result[c].Data) > 0

\* The kinds of the statements a call has sent, in the order it sent them.
Sent(c) == [i \in 1..Len(issued[c]) |-> issued[c][i].stmt]

\* C20: a call sends the count first and the fetch only after the count
\* succeeded, each at most once; when the count fails the fetch is never sent,
\* and a failure is returned as soon as it happens, with nothing sent after it.
C20_CountThenFetchOnce ==
    \A c \in Calls :
        /\ Sent(c) \in {<<>>, <<"count">>, <<"count", "fetch">>}
        /\ Len(issued[c]) > 1 => issued[c][1].err = NoError
        /\ pc[c] = "count" => Sent(c) = <<>>
        /\ pc[c] = "fetch" => Sent(c) = <<"count">> /\ Errors(c) = {}
        /\ pc[c] = "done" =>
              /\ Len(issued[c]) > 0
              /\ issued[c][1].err # NoError =>
                    /\ Sent(c) = <<"count">>
                    /\ result[c] = Failure(CountError, issued[c][1].err)
              /\ Cardinality({i \in 1..Len(issued[c]) : issued[c][i].err # NoError})
                    = (IF result[c].ok THEN 0 ELSE 1)

\* The count failed and the call is over without a fetch.
C20_Witness ==
    \E c \in Calls :
        /\ pc[c] = "done"
        /\ Sent(c) = <<"count">>
        /\ result[c] = Failure(CountError, StoreDown)

\* C21: when the context of its request is cancelled while the count or the
\* fetch of a call is in flight, the call ends with an error; it does not run
\* its statements to completion and return a page.
C21_CancelAborts ==
    \A c \in Calls :
        (pc[c] = "done" /\ ctx[c] = "cancelled") => ~result[c].ok

\* The call has sent its fetch.
Fetched(c) == pc[c] \in {"done", "replied"} /\ Len(issued[c]) > 1

C23_ResponseReportsEffectivePaging ==
    \A c \in Calls :
        Succeeded(c) =>
            /\ result[c].Page = NormPage(Raw(c).Page)
            /\ result[c].PageSize = NormPageSize(Raw(c).PageSize)
            /\ result[c].Page >= 1
            /\ result[c].PageSize >= 1
            /\ query[c].limit = <<result[c].PageSize>>
            /\ query[c].offset = (result[c].Page - 1) * result[c].PageSize
            /\ query[c].offset >= 0

\* The key k is filters[name].
IsBracketKey(k, name) == k = FiltersPrefix \o name \o FiltersSuffix

\* Every text a key of the query string could carry between its brackets.
BracketNames(values) ==
    UNION {{SubSeq(k, i, Len(k) - 1) : i \in 1..Len(k)} : k \in DOMAIN values}

\* C24: after a successful Bind, Filters has, for every key filters[name] of
\* the query string, the entry name -> first value of that key, and it has
\* no other entry: a key without the prefix filters[ or without the closing
\* bracket gives none, and what the generic binding put in Filters is gone.
C24_BindExtractsBracketFilters ==
    bind.pc = "bound" =>
        LET values == bind.url.values
        IN  /\ \A k \in DOMAIN values :
                  \A name \in BracketNames(values) :
                      IsBracketKey(k, name) =>
                          /\ name \in DOMAIN bind.Filters
                          /\ bind.Filters[name] = TextVal(values[k][1])
            /\ \A name \in DOMAIN bind.Filters :
                  \E k \in DOMAIN values : IsBracketKey(k, name)
            /\ \A name \in DOMAIN bind.generic :
                  name \in DOMAIN bind.Filters =>
                      \E k \in DOMAIN values : IsBracketKey(k, name)

\* A Bind of ?filters[role]=admin&filters[role]=user&filters[role=..&role]=..
\* &filters[]=..&filters={"x":"y"}: Filters has role -> admin and the entry
\* of the empty name, nothing else.
C24_Witness ==
    /\ bind.pc = "bound"
    /\ {KeyFiltersRole, FiltersPrefix \o <<"r", "o", "l", "e">>,
        <<"r", "o", "l", "e", "]">>, KeyFilters, FiltersPrefix \o <<"]">>}
           \subseteq DOMAIN bind.url.values
    /\ bind.url.values[KeyFiltersRole] = <<Admin, User>>
    /\ bind.generic = JSONMap
    /\ DOMAIN bind.Filters = {<<"r", "o", "l", "e">>, <<>>}
    /\ bind.Filters[<<"r", "o", "l", "e">>] = TextVal(Admin)
\* The values a configuration gives DefaultOrder.
DefaultOrders == {"ASC", "DESC", ""}

\* The statements Paginate(p, cfg) sends, the count and the fetch, and the
\* paging it reports.
StatementsOf(p, cfg) ==
    LET np == Normalize(p, cfg)
        nc == NormalizeConfig(cfg)
        q  == BuildQuery(np, nc)
        sp == SortedParams(np, nc)
    IN  [count |-> CountQuery(q, np, nc), fetch |-> FetchQuery(q, np, nc),
         Page |-> sp.Page, PageSize |-> sp.PageSize]

CacheCoherent(cache, table) ==
    \A id \in DOMAIN cache :
        \E r \in First(table, id) : cache[id] = Marshal(r)

\* No request is inside Auth.
AuthQuiet == \A a \in AuthIds : auth[a].pc \in {"idle", "done"}

\* C26: once UpdateUser, DeleteUser or SoftDeleteUser has returned and no
\* request is inside Auth, the entry user:<id> of the cache is absent or is
\* the current row; and a request that entered Auth after the call returned
\* and was let through has the current user in its context.
C26_CacheCoherentAfterMutation ==
    /\ (mut.pc = "returned" /\ AuthQuiet) => CacheCoherent(redis, db)
    /\ \A a \in AuthIds :
          (auth[a].pc = "done" /\ auth[a].late /\ auth[a].next) =>
              \E r \in First(db, auth[a].UserID) :
                  auth[a].context = <<RegisterResponse(r)>>
\* The request carries an access_token that parses and is valid.
GoodToken(k) ==
    /\ k.access # <<>>
    /\ k.access[1].err = NoError
    /\ k.access[1].Valid

\* C28: the chain goes on only for a request whose access_token parses and
\* is valid and whose user is in the cache or in the table, and then the
\* context holds that user; every other request is answered 401, aborted and
\* given no user; and on the same cookies Auth and AuthWithoutRedis decide
\* the same when the cache Auth met agreed with the table.
C28_AuthGate ==
    /\ \A a \in AuthIds :
          auth[a].pc = "done" =>
              /\ auth[a].next =>
                    /\ GoodToken(auth[a].cookies)
                    /\ \/ auth[a].UserID \in DOMAIN auth[a].cacheAtStart
                       \/ First(db, auth[a].UserID) # {}
                    /\ auth[a].context # <<>>
                    /\ auth[a].context[1].ID = auth[a].UserID
                    /\ ~auth[a].aborted
                    /\ auth[a].status = 0
              /\ ~auth[a].next =>
                    /\ auth[a].status = StatusUnauthorized
                    /\ auth[a].aborted
                    /\ auth[a].context = <<>>
                    /\ \/ ~GoodToken(auth[a].cookies)
                       \/ First(db, auth[a].UserID) = {}
    /\ (/\ auth[1].pc = "done" /\ auth[2].pc = "done"
        /\ auth[1].cookies = auth[2].cookies
        /\ CacheCoherent(auth[1].cacheAtStart, db)) =>
           /\ auth[1].next = auth[2].next
           /\ auth[1].status = auth[2].status
           /\ auth[1].context = auth[2].context

\* The two middlewares have let the same request of the second user through,
\* Auth from a cache that agreed with the table.
C28_Witness ==
    /\ auth[1].pc = "done" /\ auth[2].pc = "done"
    /\ auth[1].cookies = auth[2].cookies
    /\ auth[1].UserID = 2
    /\ 2 \in DOMAIN auth[1].cacheAtStart
    /\ CacheCoherent(auth[1].cacheAtStart, db)
    /\ auth[1].next /\ auth[2].next
\* C27: whatever the interleaving of Register and CreateUser calls, no two
\* users of the table have the same username or the same email; a call that
\* fails has failed with "username already exists" or "email already
\* exists", which its handler answers with 409; and a call that fails has
\* inserted no row.
C27_UniqueUsersAndConflictErrors ==
    /\ \A i, j \in DOMAIN db :
          i # j => /\ db[i].username # db[j].username
                   /\ db[i].email # db[j].email
    /\ \A r \in RegIds :
          (reg[r].pc = "done" /\ reg[r].err # NoError) =>
              /\ reg[r].err \in {UsernameExists, EmailExists}
              /\ reg[r].status = StatusConflict
              /\ ~reg[r].inserted
====
